---- MODULE Spec2Model ----
(***************************************************************************)
(* PC Manager server (main.py): the computers and commands tables, the     *)
(* request handlers register, poll, create_command and report_result as    *)
(* sequences of database statements (one atomic step per awaited           *)
(* statement), and the release handlers upload_binary, set_version and     *)
(* version over the downloads folder.                                      *)
(***************************************************************************)
EXTENDS Integers, Sequences, FiniteSets, TLC

VARIABLES
    computers,   \* rows of table computers, in rowid order
    commands,    \* rows of table commands; a row's id is its index
    now,         \* the clock datetime.utcnow() reads
    req,         \* per connection: the request in flight, with its arguments and locals
    files,       \* the downloads folder: file name -> contents
    resp,        \* the response the latest step sent (NoResp when it sent none)
    issued,      \* history: per command id, the arguments of its create_command
    delivered,   \* history: per command id, the number of poll responses holding it
    awaiting,    \* history: ids inserted and not yet read by any poll's fetch
    quiet,       \* history: per agent, a poll completed and nothing was enqueued since its fetch
    uploaded,    \* history: file names upload_binary has stored
    published    \* history: the descriptor of the last successful set_version

dbvars == <<computers, commands, now, req, issued, delivered, awaiting, quiet>>
NoDoc == [version |-> "", url |-> <<>>]
fsvars == <<files, uploaded, published>>
vars == <<computers, commands, now, req, files, resp, issued, delivered,
          awaiting, quiet, uploaded, published>>

\* ----------------------------------------------------------------- bounds
MaxCommands == 2     \* rows the commands table may hold
MaxTime == 3         \* readings of the clock

\* ----------------------------------------------------------------- inputs
None == "None"                       \* Python's None, for an optional string
NoRow == <<>>                        \* fetch_one's None
ADMIN_KEY == "change_me"
Conns == {1, 2}                      \* concurrent connections
PcIds == {"A", "B"}
Tokens == {"t1", "t2"}
AdminKeys == {ADMIN_KEY, None}       \* X-Admin-Key header: right, or absent
AgentTokens == Tokens \cup {None}    \* X-Agent-Token header
\* request bodies of /register: mac and ip are optional
RegisterIn ==
    {[pc_id |-> "A", room |-> "r1", mac |-> None, ip |-> None, token |-> "t1"],
     [pc_id |-> "A", room |-> "r2", mac |-> "m1", ip |-> "10.0.0.1", token |-> "t2"],
     [pc_id |-> "B", room |-> "r2", mac |-> "m2", ip |-> None, token |-> "t2"]}
EmptyDict == "{}"
\* arguments of /command: the payload is optional
CommandIn ==
    {[pc_id |-> "A", cmd_type |-> "msg", payload |-> "{text: hi}"],
     [pc_id |-> "B", cmd_type |-> "reboot", payload |-> None]}
CommandIds == 1..MaxCommands

\* strings the release handlers build are sequences of pieces; "/" is one piece
Unset == <<None>>                    \* an environment variable that is not set
EnvBaseUrls == {Unset, <<>>, <<"http://srv">>, <<"http://srv", "/">>}   \* BASE_URL
HostName == "pc-server"              \* socket.gethostname()
Versions == {"1.0", "2.0"}
UploadNames == {"agent.exe", "version.json"}
FileNames == UploadNames \cup {""}   \* the filename argument of /set_version
\* uploaded bytes: a binary, or a JSON document
Uploads == {<<"raw", [bytes |-> "MZ"]>>,
            <<"json", [version |-> "6.6", url |-> <<"http://evil">>]>>}

Min(S) == CHOOSE x \in S : \A y \in S : x <= y

\* ----------------------------------------------------------------- tables
\* computers.select().where(pc_id == p), fetch_one: the first matching row or None
ComputerRows(pc_id) == {i \in 1..Len(computers) : computers[i].pc_id = pc_id}

FetchComputer(pc_id) ==
    IF ComputerRows(pc_id) = {} THEN NoRow ELSE computers[Min(ComputerRows(pc_id))]

\* a table whose pc_id column carries no unique index
NoUniqueIndex(pc_id) == FALSE

\* the unique index on computers.pc_id rejects a second row for a pc_id
UniqueViolation(pc_id) == ComputerRows(pc_id) # {}

\* commands.select().where(id == c), fetch_one
FetchCommand(command_id) ==
    IF command_id \in 1..Len(commands) THEN commands[command_id] ELSE NoRow

\* a select that leaves the pc_id out of its where clause
PendingIdsOfAll(pc_id) == {i \in 1..Len(commands) : commands[i].status = "pending"}

\* ids of the rows commands.select().where(pc_id == p & status == "pending") returns
PendingIds(pc_id) ==
    {i \in 1..Len(commands) : commands[i].pc_id = pc_id /\ commands[i].status = "pending"}

RECURSIVE SortedSeq(_)
SortedSeq(S) == IF S = {} THEN <<>> ELSE <<Min(S)>> \o SortedSeq(S \ {Min(S)})

\* a fetch that returns the newest row first
FetchPendingNewestFirst(pc_id) ==
    [k \in 1..Cardinality(PendingIds(pc_id)) |->
        LET i == SortedSeq(PendingIds(pc_id))[Cardinality(PendingIds(pc_id)) + 1 - k]
        IN  [id |-> i, cmd_type |-> commands[i].cmd_type, payload |-> commands[i].payload]]

\* fetch_all of the pending rows, in rowid order
FetchPending(pc_id) ==
    [k \in 1..Cardinality(PendingIds(pc_id)) |->
        LET i == SortedSeq(PendingIds(pc_id))[k]
        IN  [id |-> i, cmd_type |-> commands[i].cmd_type, payload |-> commands[i].payload]]

\* an update that puts a reported command back in the queue instead of closing it
StatusReset(command_id, s) ==
    [i \in 1..Len(commands) |->
        IF i = command_id
          THEN [commands[i] EXCEPT !.status = IF s = "done" THEN "pending" ELSE s]
          ELSE commands[i]]

\* an update that writes sent whatever the handler asked for
StatusAlwaysSent(command_id, s) ==
    [i \in 1..Len(commands) |->
        IF i = command_id THEN [commands[i] EXCEPT !.status = "sent"] ELSE commands[i]]

\* an update that writes nothing
StatusNotWritten(command_id, s) == commands

\* commands.update().where(id == c).values(status = s)
SetCommandStatus(command_id, s) ==
    [i \in 1..Len(commands) |->
        IF i = command_id THEN [commands[i] EXCEPT !.status = s] ELSE commands[i]]

\* payload or {}
PayloadOrEmpty(payload) == IF payload = None \/ payload = EmptyDict THEN EmptyDict ELSE payload

\* a poll that skips the token comparison
PollAcceptsAnyToken(x_agent_token, row) == TRUE

\* poll: x_agent_token != row["token"] is forbidden
PollTokenOk(x_agent_token, row) == x_agent_token = row.token

\* a report_result that skips the token comparison
ReportAcceptsAnyToken(x_agent_token, pc) == TRUE

\* report_result: x_agent_token != pc["token"] is forbidden
ReportTokenOk(x_agent_token, pc) == x_agent_token = pc.token

\* a handler that skips the admin key comparison
AnyAdminKey(x_admin_key) == TRUE

\* x_admin_key != ADMIN_KEY
AdminKeyOk(x_admin_key) == x_admin_key = ADMIN_KEY

\* a create_command that skips the lookup of the agent
PcNotChecked(pc_id) == TRUE

\* create_command: not await database.fetch_one(q) is not-found
PcFound(pc_id) == FetchComputer(pc_id) # NoRow

Idle == [op |-> "none", pc |-> "idle"]
NoResp == [op |-> "none", code |-> 0]

\* a request is served on the first connection that has no request in flight
Free(r) == req[r] = Idle /\ \A c \in Conns : c < r => req[c] # Idle

\* the handler awaits its next statement
Continue(r, rec) == req' = [req EXCEPT ![r] = rec] /\ resp' = NoResp

\* the handler returns or raises: the response goes out and the connection is free
Respond(r, rec) == req' = [req EXCEPT ![r] = Idle] /\ resp' = rec

\* datetime.utcnow(): what the clock shows at the reading after this one; the
\* readings stop growing at MaxTime
UtcNow == IF now < MaxTime THEN now + 1 ELSE now

\* ----------------------------------------------------------------- register
\* lines 75-76: look the pc_id up
RegisterLookup(r, data) ==
    /\ Free(r)
    /\ Continue(r, [op |-> "register", pc |-> "write", data |-> data,
                   existing |-> FetchComputer(data.pc_id) # NoRow])
    /\ UNCHANGED <<computers, commands, now, issued, delivered, awaiting, quiet>>
    /\ UNCHANGED fsvars

\* an insert that leaves status to the column's default
NewComputerDefaultStatus(data) ==
    [pc_id |-> data.pc_id, room |-> data.room, mac |-> data.mac, ip |-> data.ip,
     token |-> data.token, status |-> "offline", last_seen |-> now]

\* line 87: the row computers.insert().values(...) stores
NewComputer(data) ==
    [pc_id |-> data.pc_id, room |-> data.room, mac |-> data.mac, ip |-> data.ip,
     token |-> data.token, status |-> "online", last_seen |-> now]

\* lines 77-89: read the clock, then update the rows of the pc_id or insert one
RegisterWrite(r) ==
    LET data == req[r].data
        row == NewComputer(data)
    IN  /\ req[r].op = "register" /\ req[r].pc = "write"
        /\ now' = UtcNow
        /\ IF req[r].existing
              THEN /\ computers' = [i \in 1..Len(computers) |->
                                      IF computers[i].pc_id = data.pc_id
                                        THEN [computers[i] EXCEPT
                                                !.ip = data.ip, !.mac = data.mac,
                                                !.token = data.token, !.last_seen = now,
                                                !.status = "online", !.room = data.room]
                                        ELSE computers[i]]
                   /\ Respond(r, [op |-> "register", data |-> data,
                                  code |-> 200, body |-> "updated"])
              ELSE IF UniqueViolation(data.pc_id)
                     THEN \* IntegrityError out of the insert: the request fails
                          /\ UNCHANGED computers
                          /\ Respond(r, [op |-> "register", data |-> data,
                                         code |-> 500, body |-> "IntegrityError"])
                     ELSE /\ computers' = Append(computers, row)
                          /\ Respond(r, [op |-> "register", data |-> data,
                                         code |-> 200, body |-> "registered"])
        /\ UNCHANGED <<commands, issued, delivered, awaiting, quiet>>
        /\ UNCHANGED fsvars

\* ----------------------------------------------------------------- poll
\* lines 93-98: look the agent up and compare the token
PollLookup(r, pc_id, x_agent_token) ==
    LET row == FetchComputer(pc_id)
        fail(code, detail) == [op |-> "poll", code |-> code, body |-> detail, pc_id |-> pc_id]
    IN  /\ Free(r)
        /\ IF row = NoRow THEN Respond(r, fail(404, "pc not found"))
           ELSE IF ~PollTokenOk(x_agent_token, row) THEN Respond(r, fail(403, "bad token"))
           ELSE Continue(r, [op |-> "poll", pc |-> "touch", pc_id |-> pc_id,
                            x_agent_token |-> x_agent_token])
        /\ UNCHANGED <<computers, commands, now, issued, delivered, awaiting, quiet>>
        /\ UNCHANGED fsvars

\* line 100: mark last seen and online
PollTouch(r) ==
    /\ req[r].op = "poll" /\ req[r].pc = "touch"
    /\ now' = UtcNow
    /\ computers' = [i \in 1..Len(computers) |->
                        IF computers[i].pc_id = req[r].pc_id
                          THEN [computers[i] EXCEPT !.last_seen = now, !.status = "online"]
                          ELSE computers[i]]
    /\ Continue(r, [req[r] EXCEPT !.pc = "fetch"])
    /\ UNCHANGED <<commands, issued, delivered, awaiting, quiet>>
    /\ UNCHANGED fsvars

\* the 200 response of a poll, and the history it leaves
PollReturn(r, cmd_list, expect, wasQuiet, enq) ==
    /\ Respond(r, [op |-> "poll", code |-> 200, body |-> cmd_list, pc_id |-> req[r].pc_id,
                   expect |-> expect, wasQuiet |-> wasQuiet])
    /\ delivered' = [c \in 1..Len(delivered) |->
                        IF \E k \in 1..Len(cmd_list) : cmd_list[k].id = c
                          THEN delivered[c] + 1 ELSE delivered[c]]
    /\ quiet' = [quiet EXCEPT ![req[r].pc_id] = @ \/ ~enq]

\* lines 101-103 (and 107 when nothing is pending): fetch the agent's pending rows
PollFetch(r) ==
    LET rows == FetchPending(req[r].pc_id)
        expect == {c \in awaiting : commands[c].pc_id = req[r].pc_id}
        wasQuiet == quiet[req[r].pc_id]
    IN  /\ req[r].op = "poll" /\ req[r].pc = "fetch"
        /\ awaiting' = awaiting \ expect
        /\ IF rows = <<>>
              THEN PollReturn(r, <<>>, expect, wasQuiet, FALSE)
              ELSE /\ Continue(r, [op |-> "poll", pc |-> "mark", pc_id |-> req[r].pc_id,
                                  x_agent_token |-> req[r].x_agent_token, rows |-> rows,
                                  cmd_list |-> <<>>, expect |-> expect,
                                  wasQuiet |-> wasQuiet, enq |-> FALSE])
                   /\ UNCHANGED <<delivered, quiet>>
        /\ UNCHANGED <<computers, commands, now, issued>>
        /\ UNCHANGED fsvars

\* lines 104-107: one turn of the loop, append the row and mark it sent; return
\* after the last row
PollMark(r) ==
    LET row == Head(req[r].rows)
        cmd_list == Append(req[r].cmd_list, row)
    IN  /\ req[r].op = "poll" /\ req[r].pc = "mark"
        /\ commands' = SetCommandStatus(row.id, "sent")
        /\ IF Len(req[r].rows) = 1
              THEN PollReturn(r, cmd_list, req[r].expect, req[r].wasQuiet, req[r].enq)
              ELSE /\ Continue(r, [req[r] EXCEPT !.rows = Tail(@), !.cmd_list = cmd_list])
                   /\ UNCHANGED <<delivered, quiet>>
        /\ UNCHANGED <<computers, now, issued, awaiting>>
        /\ UNCHANGED fsvars

\* ----------------------------------------------------------------- create_command
\* lines 111-116: compare the admin key, then look the agent up
CreateCheck(r, pc_id, cmd_type, payload, x_admin_key) ==
    LET args == [op |-> "create_command", pc_id |-> pc_id, cmd_type |-> cmd_type,
                 payload |-> payload, x_admin_key |-> x_admin_key]
        fail(code, detail) == [op |-> "create_command", code |-> code, body |-> detail,
                               pc_id |-> pc_id, x_admin_key |-> x_admin_key]
    IN  /\ Free(r)
        /\ IF ~AdminKeyOk(x_admin_key) THEN Respond(r, fail(403, "bad admin key"))
           ELSE IF ~PcFound(pc_id) THEN Respond(r, fail(404, "pc not found"))
           ELSE Continue(r, args @@ [pc |-> "insert"])
        /\ UNCHANGED <<computers, commands, now, issued, delivered, awaiting, quiet>>
        /\ UNCHANGED fsvars

\* lines 117-118: insert the pending row
CreateInsert(r) ==
    LET a == req[r]
        id == Len(commands) + 1
    IN  /\ a.op = "create_command" /\ a.pc = "insert"
        /\ Len(commands) < MaxCommands
        /\ commands' = Append(commands, [pc_id |-> a.pc_id, cmd_type |-> a.cmd_type,
                                         payload |-> PayloadOrEmpty(a.payload),
                                         status |-> "pending"])
        /\ issued' = Append(issued, [cmd_type |-> a.cmd_type, payload |-> a.payload])
        /\ delivered' = Append(delivered, 0)
        /\ awaiting' = awaiting \cup {id}
        /\ quiet' = [quiet EXCEPT ![a.pc_id] = FALSE]
        /\ resp' = [op |-> "create_command", code |-> 200, body |-> "queued"]
        /\ req' = [c \in Conns |->
                     IF c = r THEN Idle
                     ELSE IF req[c].op = "poll" /\ req[c].pc = "mark" /\ req[c].pc_id = a.pc_id
                            THEN [req[c] EXCEPT !.enq = TRUE]
                            ELSE req[c]]
        /\ UNCHANGED <<computers, now>>
        /\ UNCHANGED fsvars

\* ----------------------------------------------------------------- report_result
\* lines 123-126: look the command up
ReportLookup(r, command_id, x_agent_token) ==
    LET row == FetchCommand(command_id)
        args == [op |-> "report_result", command_id |-> command_id,
                 x_agent_token |-> x_agent_token]
        fail(code, detail) == [op |-> "report_result", code |-> code, body |-> detail]
    IN  /\ Free(r)
        /\ IF row = NoRow
              THEN Respond(r, fail(404, "command not found") @@ [command_id |-> command_id])
              ELSE Continue(r, args @@ [pc |-> "auth", owner |-> row.pc_id])
        /\ UNCHANGED <<computers, commands, now, issued, delivered, awaiting, quiet>>
        /\ UNCHANGED fsvars

\* lines 128-131: look up the agent the command belongs to and compare the token
ReportAuth(r) ==
    LET pc == FetchComputer(req[r].owner)
        fail(code, detail) == [op |-> "report_result", code |-> code, body |-> detail]
    IN  /\ req[r].op = "report_result" /\ req[r].pc = "auth"
        /\ IF pc = NoRow   \* pc["token"] on None raises TypeError
              THEN Respond(r, fail(500, "TypeError"))
           ELSE IF ~ReportTokenOk(req[r].x_agent_token, pc)
              THEN Respond(r, fail(403, "bad token") @@
                              [command_id |-> req[r].command_id,
                               x_agent_token |-> req[r].x_agent_token])
           ELSE Continue(r, [op |-> "report_result", pc |-> "update",
                             command_id |-> req[r].command_id])
        /\ UNCHANGED <<computers, commands, now, issued, delivered, awaiting, quiet>>
        /\ UNCHANGED fsvars

\* lines 132-134: set the command done
ReportUpdate(r) ==
    /\ req[r].op = "report_result" /\ req[r].pc = "update"
    /\ commands' = SetCommandStatus(req[r].command_id, "done")
    /\ Respond(r, [op |-> "report_result", code |-> 200, body |-> "ok",
                   command_id |-> req[r].command_id])
    /\ UNCHANGED <<computers, now, issued, delivered, awaiting, quiet>>
    /\ UNCHANGED fsvars

\* ----------------------------------------------------------------- releases
\* base.rstrip("/")
RECURSIVE RStrip(_)
RStrip(str) == IF str # <<>> /\ str[Len(str)] = "/" THEN RStrip(SubSeq(str, 1, Len(str) - 1))
               ELSE str

\* lines 166-173
get_base_url(base) ==
    IF base # Unset /\ base # <<>> THEN RStrip(base) ELSE <<"http://", HostName>>

\* json.dumps and json.loads: only a JSON text loads
JsonDumps(doc) == <<"json", doc>>
JsonLoads(text) == IF text[1] = "json" THEN [ok |-> TRUE, doc |-> text[2]] ELSE [ok |-> FALSE]

\* a set_version that skips the existence test
NoExistenceCheck(filename) == TRUE

\* pathlib.Path(DOWNLOAD_FOLDER) / filename, .exists(): the empty name is the folder itself
PathExists(filename) == filename = "" \/ filename \in DOMAIN files

\* dest.write_bytes, write_text
WriteFile(filename, contents) ==
    [n \in DOMAIN files \cup {filename} |-> IF n = filename THEN contents ELSE files[n]]

\* lines 144-152
upload_binary(filename, contents, x_admin_key) ==
    /\ IF ~AdminKeyOk(x_admin_key)
          THEN /\ resp' = [op |-> "upload_binary", code |-> 403, body |-> "bad admin key"]
               /\ UNCHANGED <<files, uploaded>>
          ELSE /\ files' = WriteFile(filename, contents)
               /\ uploaded' = uploaded \cup {filename}
               /\ resp' = [op |-> "upload_binary", code |-> 200,
                           body |-> [ok |-> TRUE, path |-> <<"/downloads/", filename>>]]
    /\ UNCHANGED published
    /\ UNCHANGED dbvars

\* lines 154-164; base is the BASE_URL the environment holds
set_version(version, filename, x_admin_key, base) ==
    LET version_data == [version |-> version,
                         url |-> get_base_url(base) \o <<"/downloads/", filename>>]
        args == [op |-> "set_version", version |-> version, filename |-> filename]
    IN  /\ IF ~AdminKeyOk(x_admin_key)
              THEN /\ resp' = args @@ [code |-> 403, body |-> "bad admin key"]
                   /\ UNCHANGED <<files, published>>
           ELSE IF ~PathExists(filename)
              THEN /\ resp' = args @@ [code |-> 404, body |-> "file not found"]
                   /\ UNCHANGED <<files, published>>
           ELSE /\ files' = WriteFile("version.json", JsonDumps(version_data))
                /\ published' = version_data
                /\ resp' = args @@ [code |-> 200, body |-> [ok |-> TRUE, version |-> version_data]]
        /\ UNCHANGED uploaded
        /\ UNCHANGED dbvars

\* lines 136-142: what GET /version answers on the folder as it is
VersionResponse ==
    IF "version.json" \in DOMAIN files
      THEN IF JsonLoads(files["version.json"]).ok
             THEN [op |-> "version", code |-> 200, body |-> JsonLoads(files["version.json"]).doc]
             ELSE [op |-> "version", code |-> 500, body |-> "JSONDecodeError"]
      ELSE [op |-> "version", code |-> 200, body |-> [version |-> "0.0.0", url |-> <<>>]]

version ==
    /\ resp' = VersionResponse
    /\ UNCHANGED fsvars
    /\ UNCHANGED dbvars

\* ----------------------------------------------------------------- specification
Init ==
    /\ computers = <<>>
    /\ commands = <<>>
    /\ now = 0
    /\ req = [r \in Conns |-> Idle]
    /\ files = <<>>
    /\ resp = NoResp
    /\ issued = <<>>
    /\ delivered = <<>>
    /\ awaiting = {}
    /\ quiet = [p \in PcIds |-> FALSE]
    /\ uploaded = {}
    /\ published = NoDoc

\* the handlers of both agents; the clock is read at most MaxTime times
Next ==
    \/ \E r \in Conns, data \in RegisterIn : RegisterLookup(r, data)
    \/ \E r \in Conns : now < MaxTime /\ RegisterWrite(r)
    \/ \E r \in Conns, pc_id \in PcIds, t \in AgentTokens : PollLookup(r, pc_id, t)
    \/ \E r \in Conns : now < MaxTime /\ PollTouch(r)
    \/ \E r \in Conns : PollFetch(r)
    \/ \E r \in Conns : PollMark(r)
    \/ \E r \in Conns, a \in CommandIn, k \in AdminKeys :
          CreateCheck(r, a.pc_id, a.cmd_type, a.payload, k)
    \/ \E r \in Conns : CreateInsert(r)
    \/ \E r \in Conns, c \in CommandIds, t \in AgentTokens : ReportLookup(r, c, t)
    \/ \E r \in Conns : ReportAuth(r)
    \/ \E r \in Conns : ReportUpdate(r)

Spec == Init /\ [][Next]_vars

\* agent A alone, with no bound on the number of its polls and registrations
LivePc == "A"

\* a poll of the agent that carries the token stored for it
PollWithStoredToken(pc_id) ==
    \E r \in Conns :
        /\ ComputerRows(pc_id) # {}
        /\ PollLookup(r, pc_id, FetchComputer(pc_id).token)

\* create_command calls in flight past their tests
Creating == {c \in Conns : req[c].op = "create_command"}

NextLive ==
    \/ \E r \in Conns, data \in RegisterIn : data.pc_id = LivePc /\ RegisterLookup(r, data)
    \/ \E r \in Conns : RegisterWrite(r)
    \/ \E r \in Conns, t \in AgentTokens : PollLookup(r, LivePc, t)
    \/ \E r \in Conns : PollTouch(r)
    \/ \E r \in Conns : PollFetch(r)
    \/ \E r \in Conns : PollMark(r)
    \/ \E r \in Conns, a \in CommandIn, k \in AdminKeys :
          /\ a.pc_id = LivePc
          /\ Len(commands) + Cardinality(Creating) < MaxCommands
          /\ CreateCheck(r, a.pc_id, a.cmd_type, a.payload, k)
    \/ \E r \in Conns : CreateInsert(r)
    \/ \E r \in Conns, c \in CommandIds, t \in AgentTokens : ReportLookup(r, c, t)
    \/ \E r \in Conns : ReportAuth(r)
    \/ \E r \in Conns : ReportUpdate(r)

\* every handler that has started runs to its end, and the agent keeps polling
\* with the token stored for it
Fairness ==
    /\ \A r \in Conns :
          /\ WF_vars(RegisterWrite(r))
          /\ WF_vars(PollTouch(r)) /\ WF_vars(PollFetch(r)) /\ WF_vars(PollMark(r))
          /\ WF_vars(CreateInsert(r))
          /\ WF_vars(ReportAuth(r)) /\ WF_vars(ReportUpdate(r))
    /\ SF_vars(PollWithStoredToken(LivePc))

SpecLive == Init /\ [][NextLive]_vars /\ Fairness

\* the release handlers alone
NextRelease ==
    \/ \E f \in UploadNames, c \in Uploads, k \in AdminKeys : upload_binary(f, c, k)
    \/ \E v \in Versions, f \in FileNames, k \in AdminKeys, base \in EnvBaseUrls :
          set_version(v, f, k, base)
    \/ version

SpecRelease == Init /\ [][NextRelease]_vars

\* ----------------------------------------------------------------- properties
CmdIds == 1..Len(commands)

\* C1: at-most-once delivery. Every command is in the response of at most one
\* poll, whatever the interleaving of the polls' fetch and mark steps.
C1_AtMostOnceDelivery == \A c \in 1..Len(delivered) : delivered[c] <= 1

\* C2: after create_command(A, T, P) the next successful poll of A (the first to
\* fetch after the insert) answers a list holding the command with cmd_type T and,
\* when P was given, payload P; and a poll that fetches after a completed poll of
\* A with no enqueue for A in between answers the empty list.
C2_EnqueuedThenPolled ==
    (resp.op = "poll" /\ resp.code = 200) =>
        /\ \A c \in resp.expect :
              \E k \in 1..Len(resp.body) :
                  /\ resp.body[k].id = c
                  /\ resp.body[k].cmd_type = issued[c].cmd_type
                  /\ issued[c].payload # None => resp.body[k].payload = issued[c].payload
        /\ resp.wasQuiet => resp.body = <<>>

\* C3: a command becomes done only from sent, never straight from pending.
C3_DoneOnlyFromSent ==
    [][\A c \in CmdIds :
          (commands[c].status # "done" /\ commands'[c].status = "done")
              => commands[c].status = "sent"]_vars

\* C4: done is terminal; no step moves a done command to another status.
C4_DoneIsTerminal ==
    [][\A c \in CmdIds : commands[c].status = "done" => commands'[c].status = "done"]_vars

\* C5: a poll of an unknown pc_id answers 404, a poll whose token differs from the
\* agent's stored token answers 403 and is not let in, and a rejected poll leaves
\* every agent row (status, last_seen) and every command row as it was.
C5_RejectedPollChangesNothing ==
    [][/\ (resp'.op = "poll" /\ resp'.code # 200) =>
             /\ resp'.code = IF ComputerRows(resp'.pc_id) = {} THEN 404 ELSE 403
             /\ UNCHANGED <<computers, commands, req>>
       /\ \A r \in Conns :
             (req[r] = Idle /\ req'[r].op = "poll") =>
                 /\ ComputerRows(req'[r].pc_id) # {}
                 /\ FetchComputer(req'[r].pc_id).token = req'[r].x_agent_token
                 /\ UNCHANGED <<computers, commands>>]_vars

\* a rejected poll of an agent that has a pending command
C5_Witness ==
    /\ resp.op = "poll" /\ resp.code = 403
    /\ PendingIds(resp.pc_id) # {}

\* C6: report_result for an unknown command id answers 404 and goes no further;
\* with a token that is not the stored token of the agent owning the command it
\* answers 403 and goes no further; a rejected report changes no command row.
C6_RejectedReportChangesNothing ==
    [][/\ (resp'.op = "report_result" /\ resp'.code # 200) =>
             /\ UNCHANGED commands
             /\ resp'.code = 404 => UNCHANGED req
       /\ \A r \in Conns :
             /\ (req[r] = Idle /\ req'[r].op = "report_result") =>
                   req'[r].command_id \in CmdIds /\ UNCHANGED commands
             /\ (/\ req[r].op = "report_result" /\ req[r].pc = "auth"
                 /\ req'[r] # req[r]
                 /\ ComputerRows(commands[req[r].command_id].pc_id) # {}
                 /\ FetchComputer(commands[req[r].command_id].pc_id).token
                       # req[r].x_agent_token) =>
                   /\ resp'.op = "report_result" /\ resp'.code = 403
                   /\ req'[r] = Idle
                   /\ UNCHANGED commands]_vars

\* a report for a sent command, refused though its token is another agent's
\* stored token
C6_Witness ==
    /\ resp.op = "report_result" /\ resp.code = 403
    /\ commands[resp.command_id].status = "sent"
    /\ \E i \in 1..Len(computers) :
          /\ computers[i].pc_id # commands[resp.command_id].pc_id
          /\ computers[i].token = resp.x_agent_token

\* C7: at most one agent row per pc_id.
C7_OneRecordPerPcId ==
    \A i, j \in 1..Len(computers) : computers[i].pc_id = computers[j].pc_id => i = j

\* two interleaved registers both found the pc_id missing and one has inserted
C7_Witness ==
    \E r \in Conns :
        /\ req[r].op = "register" /\ req[r].pc = "write" /\ ~req[r].existing
        /\ ComputerRows(req[r].data.pc_id) # {}

\* C8: every register call answers registered or updated, never an error, and
\* when it has answered the stored token, room, mac and ip are those it wrote.
C8_RegisterNeverFails ==
    resp.op = "register" =>
        /\ resp.code = 200 /\ resp.body \in {"registered", "updated"}
        /\ \E i \in 1..Len(computers) :
              /\ computers[i].pc_id = resp.data.pc_id
              /\ computers[i].token = resp.data.token
              /\ computers[i].room = resp.data.room
              /\ computers[i].mac = resp.data.mac
              /\ computers[i].ip = resp.data.ip

\* C9: GET /version answers the sentinel while no set_version has succeeded, and
\* otherwise the descriptor the last successful set_version wrote.
C9_VersionIsLastPublished ==
    resp.op = "version" =>
        /\ resp.code = 200
        /\ resp.body = IF published = NoDoc THEN [version |-> "0.0.0", url |-> <<>>]
                       ELSE published

\* the url ends in /downloads/<filename>
EndsInDownload(url, filename) ==
    Len(url) >= 2 /\ SubSeq(url, Len(url) - 1, Len(url)) = <<"/downloads/", filename>>

\* what C10 asks of a set_version call, "present" saying when the file counts as there
SetVersionContract(v, f, k, present) ==
    /\ k # ADMIN_KEY => resp'.code = 403 /\ UNCHANGED files
    /\ (k = ADMIN_KEY /\ ~present) => resp'.code = 404 /\ UNCHANGED files
    /\ (k = ADMIN_KEY /\ present) =>
          /\ resp'.code = 200
          /\ VersionResponse'.code = 200
          /\ VersionResponse'.body.version = v
          /\ EndsInDownload(VersionResponse'.body.url, f)

\* C10 as stated: not-found exactly when no file named f has been uploaded.
C10_SetVersionNeedsUpload ==
    [][\A v \in Versions, f \in FileNames, k \in AdminKeys, base \in EnvBaseUrls :
          set_version(v, f, k, base) => SetVersionContract(v, f, k, f \in uploaded)]_vars

\* C10, amended: not-found exactly when no path named f exists in the downloads
\* folder (an uploaded file, the version.json an earlier set_version wrote, or the
\* folder itself for the empty name); otherwise success, and GET /version then
\* answers version v with a url ending in /downloads/f; a wrong key is forbidden
\* and changes nothing.
C10_SetVersionNeedsPath ==
    [][\A v \in Versions, f \in FileNames, k \in AdminKeys, base \in EnvBaseUrls :
          set_version(v, f, k, base) =>
              SetVersionContract(v, f, k, f = "" \/ f \in DOMAIN files)]_vars

\* set_version has succeeded for an uploaded file and the descriptor shows it
C10_Witness ==
    /\ resp.op = "set_version" /\ resp.code = 200
    /\ resp.filename \in uploaded
    /\ VersionResponse.body.version = resp.version

\* C11: create_command with a wrong admin key answers 403, also for an unknown
\* pc_id (the key is compared first); with the right key and an unregistered pc_id
\* it answers 404; neither inserts a row nor changes one. A call let past both
\* tests adds exactly one row, pending, under a fresh id, for its pc_id and
\* cmd_type, and leaves the rows there as they are, also when an identical
\* command is already stored.
C11_CreateCommandContract ==
    [][/\ (resp'.op = "create_command" /\ resp'.code # 200) =>
             /\ resp'.code = IF resp'.x_admin_key # ADMIN_KEY THEN 403 ELSE 404
             /\ resp'.code = 404 => ComputerRows(resp'.pc_id) = {}
             /\ UNCHANGED <<commands, req>>
       /\ (resp'.op = "create_command" /\ resp'.code = 200) =>
             \E r \in Conns : req[r].op = "create_command" /\ req'[r] = Idle
       /\ \A r \in Conns :
             /\ (req[r] = Idle /\ req'[r].op = "create_command") =>
                   /\ req'[r].x_admin_key = ADMIN_KEY
                   /\ ComputerRows(req'[r].pc_id) # {}
                   /\ UNCHANGED commands
             /\ (req[r].op = "create_command" /\ req'[r] # req[r]) =>
                   /\ resp'.op = "create_command" /\ resp'.code = 200
                   /\ Len(commands') = Len(commands) + 1
                   /\ SubSeq(commands', 1, Len(commands)) = commands
                   /\ commands'[Len(commands')].status = "pending"
                   /\ commands'[Len(commands')].pc_id = req[r].pc_id
                   /\ commands'[Len(commands')].cmd_type = req[r].cmd_type]_vars

\* create_command has answered queued for a command identical to one already stored
C11_Witness ==
    /\ resp.op = "create_command" /\ resp.code = 200
    /\ Len(commands) = 2
    /\ commands[1].pc_id = commands[2].pc_id
    /\ commands[1].cmd_type = commands[2].cmd_type
    /\ commands[1].payload = commands[2].payload
    /\ commands[2].status = "pending"

\* C12: the lifecycle register, create_command, poll, report_result. The poll
\* that returns a command has marked it: no returned command is pending, and the
\* one it marked last (the only one, for a single command) has status sent. A
\* report_result for a stored command id is looked up, not refused as unknown;
\* when its token is the stored token of the command's agent it is let through,
\* and it then answers ok with the command's status done.
C12_Lifecycle ==
    [][/\ (resp'.op = "poll" /\ resp'.code = 200 /\ resp'.body # <<>>) =>
             /\ \A k \in 1..Len(resp'.body) :
                   commands'[resp'.body[k].id].status \in {"sent", "done"}
             /\ commands'[resp'.body[Len(resp'.body)].id].status = "sent"
       /\ (resp'.op = "report_result" /\ resp'.code = 404) =>
             resp'.command_id \notin CmdIds
       /\ (resp'.op = "report_result" /\ resp'.code = 200) =>
             commands'[resp'.command_id].status = "done"
       /\ \A r \in Conns :
             /\ (/\ req[r].op = "report_result" /\ req[r].pc = "auth"
                 /\ req'[r] # req[r]
                 /\ ComputerRows(commands[req[r].command_id].pc_id) # {}
                 /\ FetchComputer(commands[req[r].command_id].pc_id).token
                       = req[r].x_agent_token) =>
                   /\ req'[r].op = "report_result" /\ req'[r].pc = "update"
                   /\ req'[r].command_id = req[r].command_id
             /\ (/\ req[r].op = "report_result" /\ req[r].pc = "update"
                 /\ req'[r] # req[r]) =>
                   /\ resp'.op = "report_result" /\ resp'.code = 200
                   /\ resp'.command_id = req[r].command_id]_vars

\* report_result has answered ok for a command one poll returned, with the token
\* its agent registered
C12_Witness ==
    /\ resp.op = "report_result" /\ resp.code = 200
    /\ delivered[resp.command_id] = 1
    /\ commands[resp.command_id].status = "done"

C14_NeverBackToPending ==
    [][\A c \in CmdIds :
          commands[c].status # "pending" => commands'[c].status # "pending"]_vars

\* a command is done while a poll that fetched it as pending is about to write
\* its status
C14_Witness ==
    \E r \in Conns :
        /\ req[r].op = "poll" /\ req[r].pc = "mark"
        /\ commands[Head(req[r].rows).id].status = "done"

\* C15: a poll marks a command sent and returns it only while the token it
\* carries is the agent's stored token: once a register has stored another token,
\* no poll carrying the old one runs its marking step, not even one that passed
\* its token comparison before the register.
C15_OnlyStoredTokenDelivers ==
    [][\A r \in Conns :
          (/\ req[r].op = "poll" /\ req[r].pc = "mark"
           /\ (req'[r] = Idle \/ req'[r].rows # req[r].rows)) =>
              FetchComputer(req[r].pc_id).token = req[r].x_agent_token]_vars

\* C17: a poll for an agent returns only that agent's commands and no step of it
\* changes a command of another agent; no step of register changes any command.
C17_PollIsolation ==
    [][/\ (resp'.op = "poll" /\ resp'.code = 200) =>
             \A k \in 1..Len(resp'.body) :
                 commands'[resp'.body[k].id].pc_id = resp'.pc_id
       /\ \A r \in Conns :
             /\ ((req[r].op = "poll" \/ req'[r].op = "poll") /\ req'[r] # req[r]) =>
                   \A c \in CmdIds :
                       commands[c].pc_id # (IF req[r].op = "poll" THEN req[r].pc_id
                                            ELSE req'[r].pc_id)
                           => commands'[c] = commands[c]
             /\ ((req[r].op = "register" \/ req'[r].op = "register")
                 /\ req'[r] # req[r]) => UNCHANGED commands
       /\ resp'.op = "register" => UNCHANGED commands]_vars

\* a poll has returned commands of its agent while a command of the other agent
\* is pending
C17_Witness ==
    /\ resp.op = "poll" /\ resp.code = 200 /\ resp.body # <<>>
    /\ \E c \in CmdIds : commands[c].pc_id # resp.pc_id /\ commands[c].status = "pending"

\* C18: every command's pc_id is the pc_id of a stored agent row, so
\* report_result always finds the owner whose token it reads: no report ends in
\* the error of reading the token of a missing row.
C18_ReferentialIntegrity ==
    /\ \A c \in CmdIds : ComputerRows(commands[c].pc_id) # {}
    /\ ~(resp.op = "report_result" /\ resp.code = 500)

\* a report_result has read its command's owner and compared the token
C18_Witness ==
    \E r \in Conns :
        /\ req[r].op = "report_result" /\ req[r].pc = "update"
        /\ ComputerRows(commands[req[r].command_id].pc_id) # {}

\* the command is in the response list of a poll for its agent: one already
\* answered, or one a poll in flight has built so far
InResponseList(c) ==
    \/ delivered[c] >= 1
    \/ \E r \in Conns :
          /\ req[r].op = "poll" /\ req[r].pc = "mark"
          /\ req[r].pc_id = commands[c].pc_id
          /\ \E k \in 1..Len(req[r].cmd_list) : req[r].cmd_list[k].id = c

\* C19: after every step, a command whose status is sent is in the response list
\* of at least one poll for its agent; and a step that makes a command sent is
\* the marking step of a poll that fetched it.
C19_NoSilentLoss ==
    [][/\ \A c \in 1..Len(commands') : commands'[c].status = "sent" => InResponseList(c)'
       /\ \A c \in CmdIds :
             (commands[c].status # "sent" /\ commands'[c].status = "sent") =>
                 \E r \in Conns :
                     /\ req[r].op = "poll" /\ req[r].pc = "mark"
                     /\ Head(req[r].rows).id = c]_vars

\* a command is sent and the poll that marked it has not answered yet
C19_Witness ==
    \E c \in CmdIds : commands[c].status = "sent" /\ delivered[c] = 0

\* C20: every agent row has status online in every reachable state.
C20_AlwaysOnline ==
    \A i \in 1..Len(computers) : computers[i].status = "online"

\* both agents are registered and a poll has written its agent's status
C20_Witness ==
    /\ Len(computers) = 2
    /\ \E r \in Conns : req[r].op = "poll" /\ req[r].pc = "fetch"

\* C16: while the agent keeps completing polls with its stored token, every
\* command enqueued for it eventually is no longer pending and has been in a poll
\* response.
C16_EveryCommandDelivered ==
    \A c \in CommandIds :
        (c \in CmdIds) ~>
            (c \in CmdIds /\ commands[c].status # "pending" /\ delivered[c] >= 1)

====
